---- MODULE Spec2Model ----
(***************************************************************************)
(* The request relay of backend/server.js (kept in src/backend/check_env.js *)
(* after the text of check_env.js itself): an Express 5 application with    *)
(* two express-rate-limit windows, input validation, one outbound call to   *)
(* the generative-AI provider and the translation of its failures.          *)
(*                                                                          *)
(* The file holds the generation route in two pieces: the route mount with  *)
(* generationLimiter and the input validation (lines 209-221), and the      *)
(* handler body with the credential check, the provider call and the catch  *)
(* block (lines 238-296).  The model runs them in that order inside one     *)
(* try block, as the first piece opens it.                                  *)
(*                                                                          *)
(* A request is handled in the steps between which Node's event loop may    *)
(* run another request: the general limiter (awaits store.increment), the   *)
(* generation limiter (the same), the handler up to `await                  *)
(* model.generateContent(prompt)`, and the continuation after the provider  *)
(* settles.  GET / and GET /health are synchronous and take one step.       *)
(***************************************************************************)
EXTENDS Integers, Sequences, FiniteSets, TLC

(* ------------------------------ bounds --------------------------------- *)
\* requests being handled at the same time
MaxInflight == 1
\* requests received in one behaviour
MaxRequests == 2
\* requests of one caller being handled at the same time in a burst
MaxOverlap == 2
\* clock steps in one behaviour
MaxTicks == 2
\* requests received in one behaviour of the burst specification
MaxBurst == 12
\* requests counted for a caller other than the one that exhausts its windows
MaxOther == 2

(* ------------------------- program constants --------------------------- *)
ApiMax == 100
GenMax == 10
MaxPromptLen == 10000
ApiWindowMs == 15 * 60 * 1000
GenWindowMs == 60 * 1000
ApiMessage == "Too many requests from this IP, please try again later."
GenMessage == "AI generation rate limit exceeded. Please wait before trying again."

\* the clock advances in steps of half a generation window
TickMs == GenWindowMs \div 2

Callers == {"10.0.0.1", "10.0.0.2"}
\* two callers with IPv6 addresses of one /56 network
V6Callers == {"2001:db8:0:1::a", "2001:db8:0:2::b"}
Slots == 1 .. MaxInflight
BurstSlots == 1 .. MaxOverlap
AllSlots == Slots \cup BurstSlots

VARIABLES
    now,        \* Date.now(), in ms since the process started
    ticks,      \* clock steps taken so far
    apiKey,     \* process.env.GEMINI_API_KEY as read at start-up
    apiStore,   \* apiLimiter's MemoryStore: key -> [totalHits, resetTime]
    genStore,   \* generationLimiter's MemoryStore
    req,        \* the requests being handled, by slot
    received,   \* requests received so far
    last,       \* the response sent by the step just taken (NoResponse when
                \* it sent none), with the request it answers
    genLog,     \* per key, the requests that reached generationLimiter:
                \* arrival time and whether the limiter let them through
    sdkListModels,  \* typeof genAI.listModels === 'function'
    nodeEnv,    \* process.env.NODE_ENV, "" when unset
    helper,     \* a run of check_env.js, a process of its own
    proc        \* the server process: listening, closing or exited

vars == << now, ticks, apiKey, apiStore, genStore, req, received, last, genLog,
           sdkListModels, nodeEnv, helper, proc >>


(* --------------------------- JavaScript values ------------------------- *)
\* A prompt as found in the parsed body: its typeof, and its length when it
\* is a string.  "undefined" is a body without the field.
Str(n) == [type |-> "string", len |-> n]
Undefined == [type |-> "undefined", len |-> 0]
NumberVal == [type |-> "number", len |-> 0]
ArrayVal == [type |-> "object", len |-> 0]
PromptLens == {0, 4, MaxPromptLen, MaxPromptLen + 1}
Prompts == {Undefined, NumberVal, ArrayVal} \cup {Str(n) : n \in PromptLens}

\* !prompt is false for a non-empty string, a non-zero number and an object
Truthy(p) == IF p.type = "string" THEN p.len > 0 ELSE p.type \in {"number", "object"}

\* req.body after express.json() of Express 5: undefined when no JSON body
\* was parsed, else the object with its fields
NoBody == [parsed |-> FALSE, prompt |-> Undefined, sys |-> FALSE]
\* (systemInstruction, present or not, is passed on to the provider unread)
Bodies ==
    {NoBody} \cup {[parsed |-> TRUE, prompt |-> p, sys |-> FALSE] : p \in Prompts}
             \cup {[parsed |-> TRUE, prompt |-> Str(n), sys |-> TRUE] : n \in {4, MaxPromptLen + 1}}

(* ------------------------------- errors -------------------------------- *)
\* An error object: error.response.status, error.status (0 when unset) and
\* error.message ("" when unset).
M429 == "[GoogleGenerativeAI Error]: [429 Too Many Requests] quota exceeded"
M404 == "[GoogleGenerativeAI Error]: [404 Not Found] models/x is not found"
M404With429 == "[GoogleGenerativeAI Error]: [404 Not Found] models/gemini-429 is not found"
MFetch == "fetch failed"
MNoKey == "Server missing API Key. Check backend/.env"
MNoBody == "Cannot destructure property 'prompt' of 'req.body' as it is undefined."
Err(rs, st, m) == [respStatus |-> rs, status |-> st, message |-> m]
NoError == Err(0, 0, "none")
ErrStatuses == {0, 429, 503}
ProviderErrors ==
    {Err(rs, st, m) : rs \in ErrStatuses, st \in ErrStatuses, m \in {M429, M404, ""}}
ListErrors == {Err(0, 0, MFetch), Err(0, 503, "")}

\* msg.includes('429')
Includes429(m) == m \in {M429, M404With429}
\* msg.toLowerCase().includes('not found') || msg.includes('404')
IncludesNotFound(m) == m \in {M404, M404With429}

\* a || b on status numbers
Or(a, b) == IF a # 0 THEN a ELSE b

\* const msg = error && error.message ? error.message : String(error)
MsgOf(e) == IF e.message # "" THEN e.message ELSE "Error"

StatusCodeNoMessage(e) == Or(e.respStatus, Or(e.status, 500))
StatusCodeMessageFirst(e) ==
    IF Includes429(MsgOf(e)) THEN 429 ELSE Or(e.respStatus, Or(e.status, 500))
\* const statusCode = error?.response?.status || error?.status || (msg.includes('429') ? 429 : 500)
StatusCode(e) ==
    Or(e.respStatus, Or(e.status, IF Includes429(MsgOf(e)) THEN 429 ELSE 500))

(* ------------------------------ responses ------------------------------ *)
QuotaError == "Rate limited or quota exceeded"
QuotaDetails == "Gemini returned 429. Check billing/quotas for the GEMINI_API_KEY or switch to a lower-cost model (e.g., gemini-1.5-flash)."
FailedError == "AI Generation Failed"
Liveness == "Whip Montez Backend System Online. Uplink Established."

NoDetails == [msg |-> "", suggestion |-> FALSE]
\* (`stack` tells that the body carries the stack trace of an error)
NoPayload ==
    [text |-> "", error |-> "", details |-> NoDetails, output |-> "", apiKey |-> "",
     models |-> << >>, stack |-> FALSE]

\* what genAI.listModels() resolved to: an array of models or another value
NoListing == [array |-> FALSE, items |-> << >>]

\* the request in a slot
\* (`settled`, `got` and `listed` record how the provider call ended, the
\* text it returned and the listing it returned; `sent` counts the
\* responses written for the request)
Idle ==
    [pc |-> "idle", ip |-> "", route |-> "", body |-> NoBody, calls |-> 0,
     settled |-> "none", got |-> "", listed |-> NoListing, sent |-> 0]

\* what the caller receives, with the request it answers: `by` is the place
\* that sent it, `calls` the provider invocations made for the request and
\* `err` the error the catch block handled
Response(r, status, by, payload, e) ==
    [ip |-> r.ip, route |-> r.route, body |-> r.body, calls |-> r.calls,
     settled |-> r.settled, got |-> r.got, listed |-> r.listed, sent |-> r.sent + 1,
     status |-> status, by |-> by, payload |-> payload, err |-> e]
NoResponse ==
    [ip |-> "", route |-> "", body |-> NoBody, calls |-> 0,
     settled |-> "none", got |-> "", listed |-> NoListing, sent |-> 0,
     status |-> 0, by |-> "none", payload |-> NoPayload, err |-> NoError]

(* ----------------------------- body parser ----------------------------- *)
\* app.use(express.json()): the first middleware that reads the request.  A
\* body that is not JSON text of an object or array, and a body longer than
\* the parser's limit (100kb by default), make it pass an error on, with the
\* status the answer is to carry.
EnvValues == {"", "development", "production"}
ParseFailed == [status |-> 400, text |-> "Bad Request"]
TooLarge == [status |-> 413, text |-> "Payload Too Large"]
ParserErrors == {ParseFailed, TooLarge}
\* The application defines no error handler, so Express's own answers: with
\* the error's status, and as body the error's stack unless NODE_ENV is
\* "production", where it is the name of the status.
FinalHandler(pe, env) ==
    IF env = "production" THEN [NoPayload EXCEPT !.text = pe.text]
    ELSE [NoPayload EXCEPT !.stack = TRUE]

(* ----------------------------- rate limiter ---------------------------- *)
\* MemoryStore.increment of express-rate-limit: a client whose window has
\* expired (or that has none) starts a new window at the current time; the
\* hit is then counted.  The body runs without an await.
NoClient == [totalHits |-> 0, resetTime |-> 0]
\* (a variant that loses the update when another request is inside the same
\* limiter at that moment)
IncrementRacy(store, key, windowMs, t) ==
    LET c == store[key]
        w == IF c.resetTime <= t THEN [totalHits |-> 0, resetTime |-> t + windowMs] ELSE c
        busy == {s \in DOMAIN req : req[s].pc \in {"apiLimiter", "generationLimiter"}}
    IN  IF \E s1 \in busy, s2 \in busy : s1 # s2 /\ req[s1].pc = req[s2].pc /\ c.totalHits > 0
        THEN store
        ELSE [store EXCEPT ![key] = [w EXCEPT !.totalHits = @ + 1]]
\* (a variant that keeps one count for all clients)
IncrementShared(store, key, windowMs, t) ==
    LET c == store[key]
        w == IF c.resetTime <= t THEN [totalHits |-> 0, resetTime |-> t + windowMs] ELSE c
    IN  [k \in DOMAIN store |-> [w EXCEPT !.totalHits = @ + 1]]
IncrementNoReset(store, key, windowMs, t) ==
    [store EXCEPT ![key] = [totalHits |-> @.totalHits + 1,
                            resetTime |-> IF @.totalHits = 0 THEN t + windowMs ELSE @.resetTime]]
Increment(store, key, windowMs, t) ==
    LET c == store[key]
        w == IF c.resetTime <= t THEN [totalHits |-> 0, resetTime |-> t + windowMs] ELSE c
    IN  [store EXCEPT ![key] = [w EXCEPT !.totalHits = @ + 1]]

\* The limiters are given no keyGenerator, so the library's default makes the
\* key from req.ip: an IPv4 address as it is, an IPv6 address cut to its /56
\* network (ipv6Subnet, 56 by default).
IsIPv6(ip) == ip \in V6Callers
Subnet56(ip) == "2001:db8::/56"
KeyGenerator(ip) == IF IsIPv6(ip) THEN Subnet56(ip) ELSE ip
Keys == {KeyGenerator(c) : c \in Callers \cup V6Callers}

\* the limiter's answer to a request over the limit: res.status(429).send(message)
LimiterRejectDefaultMessage(r, by, message) ==
    Response(r, 429, by, [NoPayload EXCEPT !.text = "Too many requests, please try again later."],
             NoError)
LimiterReject(r, by, message) ==
    Response(r, 429, by, [NoPayload EXCEPT !.text = message], NoError)

\* the middleware rejects when totalHits > max
OverOffByOne(store, key, max) == store[key].totalHits > max + 1
Over(store, key, max) == store[key].totalHits > max

(* ------------------------------ credential ----------------------------- *)
\* process.env.GEMINI_API_KEY: unset, set to the empty string, or a key
KeyUnset == [set |-> FALSE, len |-> 0]
KeyEmpty == [set |-> TRUE, len |-> 0]
KeyGiven == [set |-> TRUE, len |-> 39]
KeyVals == {KeyUnset, KeyEmpty, KeyGiven}
\* `apiKey ?` and `!apiKey`: a non-empty string is truthy
KeyTruthy(k) == k.set /\ k.len > 0

(* --------------------------- generation route -------------------------- *)
InvalidPrompt == "Invalid prompt"
PromptTooLong == "Prompt too long (max 10,000 characters)"

\* the two validation tests, "ok" when both pass
ValidateNoLength(p) ==
    IF ~Truthy(p) \/ p.type # "string" THEN InvalidPrompt ELSE "ok"
ValidateOffByOne(p) ==
    IF ~Truthy(p) \/ p.type # "string" THEN InvalidPrompt
    ELSE IF p.len >= MaxPromptLen THEN PromptTooLong
    ELSE "ok"
Validate(p) ==
    IF ~Truthy(p) \/ p.type # "string" THEN InvalidPrompt
    ELSE IF p.len > MaxPromptLen THEN PromptTooLong
    ELSE "ok"

ErrorPayload(e, d) == [NoPayload EXCEPT !.error = e, !.details = d]

\* the catch block of the generation route
\* (a variant without the `return` of the 429 branch)
CatchNoReturn(r, e) ==
    LET msg == MsgOf(e)
        failed == Response(r, 500, "catch",
                           ErrorPayload(FailedError, [msg |-> msg, suggestion |-> IncludesNotFound(msg)]), e)
    IN  IF StatusCode(e) = 429 THEN [failed EXCEPT !.sent = @ + 1] ELSE failed
CatchNoSuggestion(r, e) ==
    LET msg == MsgOf(e)
    IN  IF StatusCode(e) = 429
        THEN Response(r, 429, "catch",
                      ErrorPayload(QuotaError, [msg |-> QuotaDetails, suggestion |-> FALSE]), e)
        ELSE Response(r, 500, "catch",
                      ErrorPayload(FailedError, [msg |-> msg, suggestion |-> FALSE]), e)
Catch(r, e) ==
    LET msg == MsgOf(e)
    IN  IF StatusCode(e) = 429
        THEN Response(r, 429, "catch",
                      ErrorPayload(QuotaError, [msg |-> QuotaDetails, suggestion |-> FALSE]), e)
        ELSE Response(r, 500, "catch",
                      ErrorPayload(FailedError, [msg |-> msg, suggestion |-> IncludesNotFound(msg)]), e)

\* The try block up to the provider call: what the handler does with the
\* body it finds.  "throw" carries the error thrown, "reply" the validation
\* message, "call" goes on to model.generateContent(prompt).
BeforeCallKeyUnchecked(body, key) ==
    IF ~body.parsed THEN [do |-> "throw", error |-> Err(0, 0, MNoBody), text |-> ""]
    ELSE IF Validate(body.prompt) # "ok"
    THEN [do |-> "reply", error |-> NoError, text |-> Validate(body.prompt)]
    ELSE [do |-> "call", error |-> NoError, text |-> ""]
BeforeCall(body, key) ==
    IF ~body.parsed THEN [do |-> "throw", error |-> Err(0, 0, MNoBody), text |-> ""]
    ELSE IF Validate(body.prompt) # "ok"
    THEN [do |-> "reply", error |-> NoError, text |-> Validate(body.prompt)]
    ELSE IF ~KeyTruthy(key)
    THEN [do |-> "throw", error |-> Err(0, 0, MNoKey), text |-> ""]
    ELSE [do |-> "call", error |-> NoError, text |-> ""]

\* res.json({ output: text })
Texts == {"pong", " two words "}
OutputFixed(t) == [NoPayload EXCEPT !.output = "pong"]
Output(t) == [NoPayload EXCEPT !.output = t]

(* ------------------------------- health -------------------------------- *)
\* apiKey: apiKey ? 'configured' : 'missing'
HealthKeyAlways(k) == "configured"
HealthKey(k) == IF KeyTruthy(k) THEN "configured" ELSE "missing"

(* ---------------------------- models route ----------------------------- *)
\* a model as listed by the provider: its name, with or without the
\* "models/" prefix, and whether it advertises generateContent
Model(pre, base, gen) == [name |-> [prefixed |-> pre, base |-> base], gen |-> gen]
ModelLists ==
    { << >>,
      << Model(TRUE, "gemini-2.0-flash-exp", TRUE), Model(TRUE, "embedding-001", FALSE) >>,
      << Model(FALSE, "gemini-1.5-pro", TRUE), Model(TRUE, "gemini-1.5-flash", TRUE) >>,
      << Model(TRUE, "gemini-1.5-flash", TRUE), Model(TRUE, "aqa", FALSE),
         Model(TRUE, "gemini-1.5-pro", TRUE) >> }
\* Array.isArray(models) ? models : []
Listings ==
    {[array |-> TRUE, items |-> l] : l \in ModelLists}
        \cup {[array |-> FALSE, items |-> << Model(TRUE, "gemini-1.5-pro", TRUE) >>]}
ArrayOf(listing) == IF listing.array THEN listing.items ELSE << >>
\* .replace(/^models\//, '')
StripPrefix(n) == [n EXCEPT !.prefixed = FALSE]
SupportedUnfiltered(list) == [i \in 1 .. Len(list) |-> StripPrefix(list[i].name)]
RECURSIVE Supported(_)
Supported(list) ==
    IF list = << >> THEN << >>
    ELSE LET rest == Supported(Tail(list))
         IN  IF Head(list).gen THEN << StripPrefix(Head(list).name) >> \o rest ELSE rest

ModelsNoKey == "Server missing API Key. Check backend/.env"
ModelsFailed == "Model listing failed"
ModelsUnsupported == "listModels() not available on this SDK version"

(* ------------------------------- process ------------------------------- *)
\* The process after app.listen: `state` is "running" while the server
\* accepts connections, "closing" after server.close() until every
\* connection has ended, "exited" after process.exit; `exit` is the exit
\* code, `signal` the signal that started the shutdown, `logged` the last
\* message written by a process-level handler, `listing` the state of the
\* start-up model listing.
ProcRunning ==
    [state |-> "running", exit |-> -1, signal |-> "none", logged |-> "none",
     listing |-> "pending"]
Listening == proc.state = "running"
Alive == proc.state # "exited"

(* ------------------------------- actions ------------------------------- *)
Send(s, resp) ==
    /\ last' = resp
    /\ req' = [req EXCEPT ![s] = Idle]

\* a request for an /api/ route arrives and enters the middleware chain; it
\* takes the first free slot (which slot holds it changes nothing)
\* (a variant in which a pending provider call holds the event loop)
ReceiveBlocked(S, s, c, route, body, max) ==
    /\ Listening
    /\ received < max
    /\ req[s] = Idle
    /\ \A q \in S : q < s => req[q] # Idle
    /\ \A q \in S : req[q].pc # "provider"
    /\ req' = [req EXCEPT ![s] = [Idle EXCEPT !.pc = "apiLimiter", !.ip = c, !.route = route,
                                                !.body = body]]
    /\ received' = received + 1
    /\ last' = NoResponse
    /\ UNCHANGED << now, ticks, apiKey, apiStore, genStore, genLog, sdkListModels, nodeEnv, helper, proc >>
Receive(S, s, c, route, body, max) ==
    /\ Listening
    /\ received < max
    /\ req[s] = Idle
    /\ \A q \in S : q < s => req[q] # Idle
    /\ req' = [req EXCEPT ![s] = [Idle EXCEPT !.pc = "apiLimiter", !.ip = c, !.route = route,
                                                !.body = body]]
    /\ received' = received + 1
    /\ last' = NoResponse
    /\ UNCHANGED << now, ticks, apiKey, apiStore, genStore, genLog, sdkListModels, nodeEnv, helper, proc >>

\* a request whose body express.json() refuses: no later middleware runs
JsonReject(c, route, pe, max) ==
    /\ Listening
    /\ received < max
    /\ received' = received + 1
    /\ last' = Response([Idle EXCEPT !.ip = c, !.route = route], pe.status, "express.json",
                        FinalHandler(pe, nodeEnv), Err(0, pe.status, pe.text))
    /\ UNCHANGED << now, ticks, apiKey, apiStore, genStore, req, genLog, sdkListModels, nodeEnv, helper, proc >>

\* app.get('/'): not under /api/, no limiter; answered at once
Root(c, max) ==
    /\ Listening
    /\ received < max
    /\ received' = received + 1
    /\ last' = Response([Idle EXCEPT !.ip = c, !.route = "/"], 200, "handler",
                        [NoPayload EXCEPT !.text = Liveness], NoError)
    /\ UNCHANGED << now, ticks, apiKey, apiStore, genStore, req, genLog, sdkListModels, nodeEnv, helper, proc >>

\* app.get('/health')
\* (a variant with the general limiter in front of the route)
HealthLimited(c, max) ==
    /\ Listening
    /\ received < max
    /\ received' = received + 1
    /\ LET r == [Idle EXCEPT !.ip = c, !.route = "/health"]
           st == Increment(apiStore, KeyGenerator(c), ApiWindowMs, now)
       IN  /\ apiStore' = st
           /\ last' = IF Over(st, KeyGenerator(c), ApiMax)
                      THEN LimiterReject(r, "apiLimiter", ApiMessage)
                      ELSE Response(r, 200, "handler",
                                    [NoPayload EXCEPT !.apiKey = HealthKey(apiKey)], NoError)
    /\ UNCHANGED << now, ticks, apiKey, genStore, req, genLog, sdkListModels, nodeEnv, helper, proc >>
Health(c, max) ==
    /\ Listening
    /\ received < max
    /\ received' = received + 1
    /\ last' = Response([Idle EXCEPT !.ip = c, !.route = "/health"], 200, "handler",
                        [NoPayload EXCEPT !.apiKey = HealthKey(apiKey)], NoError)
    /\ UNCHANGED << now, ticks, apiKey, apiStore, genStore, req, genLog, sdkListModels, nodeEnv, helper, proc >>

\* app.use('/api/', apiLimiter)
\* (a variant that counts a generation request on the generation window
\* before the general limiter decides)
ApiLimiterAfterGeneration(s) ==
    /\ Alive
    /\ req[s].pc = "apiLimiter"
    /\ LET r == req[s]
           key == KeyGenerator(r.ip)
           st == Increment(apiStore, key, ApiWindowMs, now)
       IN  /\ apiStore' = st
           /\ genStore' = IF r.route = "/api/generate" /\ Over(st, key, ApiMax)
                           THEN Increment(genStore, key, GenWindowMs, now) ELSE genStore
           /\ IF Over(st, key, ApiMax)
              THEN Send(s, LimiterReject(r, "apiLimiter", ApiMessage))
              ELSE /\ req' = [req EXCEPT ![s].pc =
                                IF r.route = "/api/generate" THEN "generationLimiter"
                                                             ELSE "handler"]
                   /\ last' = NoResponse
    /\ UNCHANGED << now, ticks, apiKey, received, genLog, sdkListModels, nodeEnv, helper, proc >>
\* (a variant with generationLimiter mounted on every /api/ route)
ApiLimiterThenGeneration(s) ==
    /\ Alive
    /\ req[s].pc = "apiLimiter"
    /\ LET r == req[s]
           key == KeyGenerator(r.ip)
           st == Increment(apiStore, key, ApiWindowMs, now)
       IN  /\ apiStore' = st
           /\ IF Over(st, key, ApiMax)
              THEN Send(s, LimiterReject(r, "apiLimiter", ApiMessage))
              ELSE /\ req' = [req EXCEPT ![s].pc = "generationLimiter"]
                   /\ last' = NoResponse
    /\ UNCHANGED << now, ticks, apiKey, genStore, received, genLog, sdkListModels, nodeEnv, helper, proc >>
ApiLimiter(s) ==
    /\ Alive
    /\ req[s].pc = "apiLimiter"
    /\ LET r == req[s]
           key == KeyGenerator(r.ip)
           st == Increment(apiStore, key, ApiWindowMs, now)
       IN  /\ apiStore' = st
           /\ IF Over(st, key, ApiMax)
              THEN Send(s, LimiterReject(r, "apiLimiter", ApiMessage))
              ELSE /\ req' = [req EXCEPT ![s].pc =
                                IF r.route = "/api/generate" THEN "generationLimiter"
                                                             ELSE "handler"]
                   /\ last' = NoResponse
    /\ UNCHANGED << now, ticks, apiKey, genStore, received, genLog, sdkListModels, nodeEnv, helper, proc >>

\* generationLimiter, mounted on the generation route before its handler
\* (a variant whose new window also starts the general window anew)
GenerationLimiterResetsBoth(s) ==
    /\ Alive
    /\ req[s].pc = "generationLimiter"
    /\ LET r == req[s]
           key == KeyGenerator(r.ip)
           st == Increment(genStore, key, GenWindowMs, now)
           over == Over(st, key, GenMax)
       IN  /\ genStore' = st
           /\ apiStore' = IF genStore[key].resetTime <= now
                           THEN [apiStore EXCEPT ![key] = NoClient] ELSE apiStore
           /\ genLog' = [genLog EXCEPT ![key] = Append(@, [t |-> now, pass |-> ~over])]
           /\ IF over
              THEN Send(s, LimiterReject(r, "generationLimiter", GenMessage))
              ELSE /\ req' = [req EXCEPT ![s].pc = "handler"]
                   /\ last' = NoResponse
    /\ UNCHANGED << now, ticks, apiKey, received, sdkListModels, nodeEnv, helper, proc >>
GenerationLimiter(s) ==
    /\ Alive
    /\ req[s].pc = "generationLimiter"
    /\ LET r == req[s]
           key == KeyGenerator(r.ip)
           st == Increment(genStore, key, GenWindowMs, now)
           over == Over(st, key, GenMax)
       IN  /\ genStore' = st
           /\ genLog' = [genLog EXCEPT ![key] = Append(@, [t |-> now, pass |-> ~over])]
           /\ IF over
              THEN Send(s, LimiterReject(r, "generationLimiter", GenMessage))
              ELSE /\ req' = [req EXCEPT ![s].pc = "handler"]
                   /\ last' = NoResponse
    /\ UNCHANGED << now, ticks, apiKey, apiStore, received, sdkListModels, nodeEnv, helper, proc >>

\* the generation handler from `try {` to `await model.generateContent(prompt)`
\* (a variant that gives the hit back when it answers with a failure, as the
\* limiter's skipFailedRequests would)
GenerateHandlerSkipFailed(s) ==
    /\ Alive
    /\ req[s].pc = "handler"
    /\ req[s].route = "/api/generate"
    /\ LET r == req[s]
           b == BeforeCall(r.body, apiKey)
           back == [genStore EXCEPT ![KeyGenerator(r.ip)].totalHits = @ - 1]
       IN  CASE b.do = "throw" -> Send(s, Catch(r, b.error)) /\ genStore' = back
             [] b.do = "reply" ->
                    /\ Send(s, Response(r, 400, "validation",
                                        [NoPayload EXCEPT !.error = b.text], NoError))
                    /\ genStore' = back
             [] OTHER ->
                    /\ req' = [req EXCEPT ![s] = [r EXCEPT !.pc = "provider", !.calls = @ + 1]]
                    /\ last' = NoResponse
                    /\ genStore' = genStore
    /\ UNCHANGED << now, ticks, apiKey, apiStore, received, genLog, sdkListModels, nodeEnv, helper, proc >>
GenerateHandler(s) ==
    /\ Alive
    /\ req[s].pc = "handler"
    /\ req[s].route = "/api/generate"
    /\ LET r == req[s]
           b == BeforeCall(r.body, apiKey)
       IN  CASE b.do = "throw" -> Send(s, Catch(r, b.error))
             [] b.do = "reply" ->
                    Send(s, Response(r, 400, "validation",
                                     [NoPayload EXCEPT !.error = b.text], NoError))
             [] OTHER ->
                    /\ req' = [req EXCEPT ![s] = [r EXCEPT !.pc = "provider", !.calls = @ + 1]]
                    /\ last' = NoResponse
    /\ UNCHANGED << now, ticks, apiKey, apiStore, genStore, received, genLog, sdkListModels, nodeEnv, helper, proc >>

\* the provider answers: result.response, response.text(), res.json
ProviderResolve(s, t) ==
    /\ Alive
    /\ req[s].pc = "provider"
    /\ Send(s, Response([req[s] EXCEPT !.settled = "resolved", !.got = t],
                        200, "handler", Output(t), NoError))
    /\ UNCHANGED << now, ticks, apiKey, apiStore, genStore, received, genLog, sdkListModels, nodeEnv, helper, proc >>

\* the provider call (or reading its response) throws: the catch block
\* (a variant that calls the provider a second time after a first failure)
ProviderRejectRetry(s, e) ==
    /\ Alive
    /\ req[s].pc = "provider"
    /\ IF req[s].calls < 2
       THEN /\ req' = [req EXCEPT ![s].pc = "handler"]
            /\ last' = NoResponse
       ELSE Send(s, Catch([req[s] EXCEPT !.settled = "rejected"], e))
    /\ UNCHANGED << now, ticks, apiKey, apiStore, genStore, received, genLog, sdkListModels, nodeEnv, helper, proc >>
ProviderReject(s, e) ==
    /\ Alive
    /\ req[s].pc = "provider"
    /\ Send(s, Catch([req[s] EXCEPT !.settled = "rejected"], e))
    /\ UNCHANGED << now, ticks, apiKey, apiStore, genStore, received, genLog, sdkListModels, nodeEnv, helper, proc >>

\* the answer of the models route when the client has no listModels (the
\* lines of this branch are lost in the file; the documentation gives 501
\* with an explanatory message)
UnsupportedAsFailure(r) ==
    Response(r, 500, "handler", ErrorPayload(ModelsFailed, NoDetails), NoError)
Unsupported(r) ==
    Response(r, 501, "handler", [NoPayload EXCEPT !.error = ModelsUnsupported], NoError)

\* app.get('/api/models') up to `await genAI.listModels()`
ModelsHandler(s) ==
    /\ Alive
    /\ req[s].pc = "handler"
    /\ req[s].route = "/api/models"
    /\ LET r == req[s]
       IN  IF ~KeyTruthy(apiKey)
           THEN Send(s, Response(r, 500, "handler",
                                 [NoPayload EXCEPT !.error = ModelsNoKey], NoError))
           ELSE IF ~sdkListModels
           THEN Send(s, Unsupported(r))
           ELSE /\ req' = [req EXCEPT ![s] = [r EXCEPT !.pc = "listing", !.calls = @ + 1]]
                /\ last' = NoResponse
    /\ UNCHANGED << now, ticks, apiKey, apiStore, genStore, received, genLog, sdkListModels, nodeEnv, helper, proc >>

ModelsResolve(s, listing) ==
    /\ Alive
    /\ req[s].pc = "listing"
    /\ Send(s, Response([req[s] EXCEPT !.settled = "resolved", !.listed = listing],
                        200, "handler",
                        [NoPayload EXCEPT !.models = Supported(ArrayOf(listing))], NoError))
    /\ UNCHANGED << now, ticks, apiKey, apiStore, genStore, received, genLog, sdkListModels, nodeEnv, helper, proc >>

ModelsReject(s, e) ==
    /\ Alive
    /\ req[s].pc = "listing"
    /\ Send(s, Response(req[s], 500, "catch",
                        ErrorPayload(ModelsFailed, [msg |-> MsgOf(e), suggestion |-> FALSE]), e))
    /\ UNCHANGED << now, ticks, apiKey, apiStore, genStore, received, genLog, sdkListModels, nodeEnv, helper, proc >>

\* process.on('SIGTERM' / 'SIGINT'): log, then server.close(callback).  The
\* server stops accepting connections; a signal that comes while it is
\* closing adds a callback for the same close event.
Signals == {"SIGTERM", "SIGINT"}
Signal(sig) ==
    /\ Alive
    /\ proc' = [proc EXCEPT !.state = "closing",
                            !.signal = IF proc.signal = "none" THEN sig ELSE @,
                            !.logged = "received, shutting down gracefully..."]
    /\ last' = NoResponse
    /\ UNCHANGED << now, ticks, apiKey, apiStore, genStore, req, received, genLog,
                    sdkListModels, nodeEnv, helper >>

\* the server's close event, once no connection is left: the callback of
\* server.close logs and calls process.exit(0)
CloseExitCode == 0
ConnectionsIgnored == TRUE
ConnectionsEnded == \A s \in AllSlots : req[s] = Idle
CloseCallback ==
    /\ proc.state = "closing"
    /\ ConnectionsEnded
    /\ proc' = [proc EXCEPT !.state = "exited", !.exit = CloseExitCode,
                            !.logged = "Server closed successfully"]
    /\ last' = NoResponse
    /\ UNCHANGED << now, ticks, apiKey, apiStore, genStore, req, received, genLog,
                    sdkListModels, nodeEnv, helper >>

\* process.on('uncaughtException'): log, process.exit(1)
UncaughtExitCode == 1
UncaughtException ==
    /\ Alive
    /\ proc' = [proc EXCEPT !.state = "exited", !.exit = UncaughtExitCode,
                            !.logged = "Uncaught Exception - Server will restart"]
    /\ last' = NoResponse
    /\ UNCHANGED << now, ticks, apiKey, apiStore, genStore, req, received, genLog,
                    sdkListModels, nodeEnv, helper >>

\* process.on('unhandledRejection'): log only
AfterRejectionExits(p) == [p EXCEPT !.state = "exited", !.exit = 1]
AfterRejection(p) == p
UnhandledRejection ==
    /\ Alive
    /\ proc' = AfterRejection([proc EXCEPT !.logged = "Unhandled Promise Rejection"])
    /\ last' = NoResponse
    /\ UNCHANGED << now, ticks, apiKey, apiStore, genStore, req, received, genLog,
                    sdkListModels, nodeEnv, helper >>

\* the start-up listing (an async function called at once): without
\* listModels it logs that; else it awaits genAI.listModels() and logs the
\* models, or, the call failing, the warning of its own catch block
StartupListing(ok) ==
    /\ Alive
    /\ proc.listing = "pending"
    /\ proc' = [proc EXCEPT
                   !.listing = "done",
                   !.logged = IF ~sdkListModels THEN "listModels() not available on this SDK version"
                              ELSE IF ok THEN "Available Gemini models fetched"
                              ELSE "Could not list models at startup"]
    /\ last' = NoResponse
    /\ UNCHANGED << now, ticks, apiKey, apiStore, genStore, req, received, genLog,
                    sdkListModels, nodeEnv, helper >>

\* time passes
Tick(d) ==
    /\ ticks < MaxTicks
    /\ ticks' = ticks + 1
    /\ now' = now + d
    /\ last' = NoResponse
    /\ UNCHANGED << apiKey, apiStore, genStore, req, received, genLog, sdkListModels, nodeEnv, helper, proc >>

(* ------------------------------ check_env.js --------------------------- *)
\* GEMINI_API_KEY as the environment and as backend/.env may give it
HelperKeyLens == {0, 1, 8, 39, 40}
HelperKeys == {KeyUnset} \cup {[set |-> TRUE, len |-> n] : n \in HelperKeyLens}
\* what a line of output is made of: fixed text, the key's length, or the
\* key's value
OkLine == << [kind |-> "text", text |-> "OK: GEMINI_API_KEY is set. Length:"],
             [kind |-> "length"],
             [kind |-> "text", text |-> "(value hidden)."] >>
WarnLines ==
    << << [kind |-> "text", text |-> "WARNING: GEMINI_API_KEY not found in backend/.env or environment."] >>,
       << [kind |-> "text", text |-> "Create backend/.env with: GEMINI_API_KEY=your_key (do NOT commit secrets)."] >> >>
\* no run of the helper
HelperOff ==
    [pc |-> "off", envKey |-> KeyUnset, fileKey |-> KeyUnset, key |-> KeyUnset,
     out |-> << >>, exit |-> -1]
HelperStart(e, f) == [HelperOff EXCEPT !.pc = "dotenv", !.envKey = e, !.fileKey = f]

\* require('dotenv').config(...): a variable the environment has is kept,
\* one it lacks is taken from the file; then const key = process.env...
HelperLoad ==
    /\ helper.pc = "dotenv"
    /\ helper' = [helper EXCEPT !.pc = "report",
                                !.key = IF helper.envKey.set THEN helper.envKey
                                        ELSE helper.fileKey]
    /\ UNCHANGED << now, ticks, apiKey, apiStore, genStore, req, received, last, genLog,
                    sdkListModels, nodeEnv, proc >>

\* if (key) console.log(... key.length ...) else console.warn(...)
Report(k) == IF KeyTruthy(k) THEN << OkLine >> ELSE WarnLines
HelperReport ==
    /\ helper.pc = "report"
    /\ helper' = [helper EXCEPT !.pc = "exit", !.out = Report(helper.key)]
    /\ UNCHANGED << now, ticks, apiKey, apiStore, genStore, req, received, last, genLog,
                    sdkListModels, nodeEnv, proc >>

\* process.exit(0)
ExitCodeByKey(k) == IF KeyTruthy(k) THEN 0 ELSE 1
ExitCode(k) == 0
HelperExit ==
    /\ helper.pc = "exit"
    /\ helper' = [helper EXCEPT !.pc = "exited", !.exit = ExitCode(helper.key)]
    /\ UNCHANGED << now, ticks, apiKey, apiStore, genStore, req, received, last, genLog,
                    sdkListModels, nodeEnv, proc >>

(* --------------------------- specifications ---------------------------- *)
InitWith(keys, sdk, envs) ==
    /\ helper = HelperOff
    /\ proc = ProcRunning
    /\ nodeEnv \in envs
    /\ now = 0
    /\ ticks = 0
    /\ apiKey \in keys
    /\ sdkListModels \in sdk
    /\ apiStore = [k \in Keys |-> NoClient]
    /\ genStore = [k \in Keys |-> NoClient]
    /\ req = [s \in AllSlots |-> Idle]
    /\ received = 0
    /\ last = NoResponse
    /\ genLog = [k \in Keys |-> << >>]

\* every route, every input, two callers
Init == InitWith(KeyVals, BOOLEAN, {""})
Next ==
    \/ \E s \in Slots, c \in Callers, body \in Bodies :
          Receive(Slots, s, c, "/api/generate", body, MaxRequests)
    \/ \E s \in Slots, c \in Callers : Receive(Slots, s, c, "/api/models", NoBody, MaxRequests)
    \/ \E c \in Callers : Root(c, MaxRequests)
    \/ \E c \in Callers : Health(c, MaxRequests)
    \/ \E s \in Slots : ApiLimiter(s)
    \/ \E s \in Slots : GenerationLimiter(s)
    \/ \E s \in Slots : GenerateHandler(s)
    \/ \E s \in Slots, t \in Texts : ProviderResolve(s, t)
    \/ \E s \in Slots, e \in ProviderErrors : ProviderReject(s, e)
    \/ \E s \in Slots : ModelsHandler(s)
    \/ \E s \in Slots, listing \in Listings : ModelsResolve(s, listing)
    \/ \E s \in Slots, e \in ListErrors : ModelsReject(s, e)
Spec == Init /\ [][Next]_vars

\* a burst of generation requests of one caller, overlapping, while the
\* clock advances by half generation windows
BurstCaller == "10.0.0.1"
Ping == [parsed |-> TRUE, prompt |-> Str(4), sys |-> FALSE]
InitBurst == InitWith({KeyGiven}, {FALSE}, {""})
NextBurst ==
    \/ \E s \in BurstSlots :
          Receive(BurstSlots, s, BurstCaller, "/api/generate", Ping, MaxBurst)
    \/ \E s \in BurstSlots : ApiLimiter(s)
    \/ \E s \in BurstSlots : GenerationLimiter(s)
    \/ \E s \in BurstSlots : GenerateHandler(s)
    \/ \E s \in BurstSlots : ProviderResolve(s, "pong")
    \/ Tick(TickMs)
SpecBurst == InitBurst /\ [][NextBurst]_vars

\* one caller sending /api/ requests one after the other until the general
\* window is exhausted
ApiBodies ==
    {Ping, [parsed |-> TRUE, prompt |-> Str(0), sys |-> FALSE],
     [parsed |-> TRUE, prompt |-> Str(MaxPromptLen + 1), sys |-> TRUE]}
InitApi == InitWith({KeyGiven}, {FALSE}, {""})
NextApi ==
    \/ \E body \in ApiBodies : Receive({1}, 1, BurstCaller, "/api/generate", body, ApiMax + 2)
    \/ Receive({1}, 1, BurstCaller, "/api/models", NoBody, ApiMax + 2)
    \/ ApiLimiter(1)
    \/ GenerationLimiter(1)
    \/ GenerateHandler(1)
    \/ ProviderResolve(1, "pong")
    \/ ModelsHandler(1)
SpecApi == InitApi /\ [][NextApi]_vars

\* one caller exhausting both of its windows, among a second IPv4 caller and
\* two IPv6 callers of one network
OtherCallers == (Callers \ {BurstCaller}) \cup V6Callers
InitKeys == InitWith({KeyGiven}, {FALSE}, {""})
NextKeys ==
    \/ Receive({1}, 1, BurstCaller, "/api/generate", Ping, ApiMax + 2 + MaxOther)
    \/ \E c \in OtherCallers :
          /\ apiStore[KeyGenerator(c)].totalHits < MaxOther
          /\ Receive({1}, 1, c, "/api/generate", Ping, ApiMax + 2 + MaxOther)
    \/ ApiLimiter(1)
    \/ GenerationLimiter(1)
    \/ GenerateHandler(1)
    \/ ProviderResolve(1, "pong")
SpecKeys == InitKeys /\ [][NextKeys]_vars

\* one caller sending generation requests one after the other while the
\* clock advances between them by half a generation window, by a whole one,
\* or to half a generation window before the end of a general window; the
\* clock is moved early in a general window or once the window is exhausted
TickSteps == {TickMs, GenWindowMs, ApiWindowMs - TickMs}
InitReset == InitWith({KeyGiven}, {FALSE}, {""})
NextReset ==
    \/ Receive({1}, 1, BurstCaller, "/api/generate", Ping, ApiMax + MaxTicks)
    \/ ApiLimiter(1)
    \/ GenerationLimiter(1)
    \/ GenerateHandler(1)
    \/ ProviderResolve(1, "pong")
    \/ \E d \in TickSteps :
          /\ req[1] = Idle
          /\ apiStore[BurstCaller].totalHits \in {1, 2, ApiMax + 1}
          /\ Tick(d)
SpecReset == InitReset /\ [][NextReset]_vars

\* one caller exhausting both windows, with / and /health asked in between
InitRead == InitWith({KeyGiven}, {FALSE}, {""})
NextRead ==
    \/ Receive({1}, 1, BurstCaller, "/api/generate", Ping, ApiMax + MaxOther + 1)
    \/ ApiLimiter(1)
    \/ GenerationLimiter(1)
    \/ GenerateHandler(1)
    \/ ProviderResolve(1, "pong")
    \/ \E c \in Callers : Root(c, ApiMax + MaxOther + 1)
    \/ \E c \in Callers : Health(c, ApiMax + MaxOther + 1)
SpecRead == InitRead /\ [][NextRead]_vars

\* one caller sending, one after the other, generation requests that all
\* fail: an empty prompt, no body, a provider call that is rejected
FailingBodies == {Ping, NoBody, [parsed |-> TRUE, prompt |-> Str(0), sys |-> FALSE]}
FailingErrors == {Err(0, 0, M429), Err(0, 503, MFetch)}
InitQuota == InitWith({KeyGiven}, {FALSE}, {""})
NextQuota ==
    \/ \E body \in FailingBodies :
          Receive({1}, 1, BurstCaller, "/api/generate", body, GenMax + MaxOther)
    \/ ApiLimiter(1)
    \/ GenerationLimiter(1)
    \/ GenerateHandler(1)
    \/ \E e \in FailingErrors : ProviderReject(1, e)
SpecQuota == InitQuota /\ [][NextQuota]_vars

\* one caller sending generation requests of every kind one after the other,
\* with or without the credential, each step of a request taken in the end
\* and every provider call settled in the end
AnswerBodies ==
    {Ping, NoBody, [parsed |-> TRUE, prompt |-> Str(0), sys |-> FALSE],
     [parsed |-> TRUE, prompt |-> Str(MaxPromptLen + 1), sys |-> FALSE]}
InitAnswer == InitWith({KeyGiven, KeyUnset}, {FALSE}, {""})
ProviderSettles ==
    \/ ProviderResolve(1, "pong")
    \/ \E e \in FailingErrors : ProviderReject(1, e)
NextAnswer ==
    \/ \E body \in AnswerBodies :
          Receive({1}, 1, BurstCaller, "/api/generate", body, GenMax + MaxOther)
    \/ \E pe \in ParserErrors : JsonReject(BurstCaller, "/api/generate", pe, GenMax + MaxOther)
    \/ ApiLimiter(1)
    \/ GenerationLimiter(1)
    \/ GenerateHandler(1)
    \/ ProviderSettles
SpecAnswer ==
    /\ InitAnswer /\ [][NextAnswer]_vars
    /\ WF_vars(ApiLimiter(1))
    /\ WF_vars(GenerationLimiter(1))
    /\ WF_vars(GenerateHandler(1))
    /\ WF_vars(ProviderSettles)

\* generation requests of two callers, overlapping, and a signal at any
\* moment; each step of a request is taken in the end, every provider call
\* settles in the end, and the close event comes once the connections ended
InitDown == InitWith({KeyGiven}, {FALSE}, {""})
DownSettles ==
    \/ \E s \in BurstSlots : ProviderResolve(s, "pong")
    \/ \E s \in BurstSlots, e \in FailingErrors : ProviderReject(s, e)
DownSteps ==
    \/ \E s \in BurstSlots : ApiLimiter(s)
    \/ \E s \in BurstSlots : GenerationLimiter(s)
    \/ \E s \in BurstSlots : GenerateHandler(s)
NextDown ==
    \/ \E s \in BurstSlots, c \in Callers :
          Receive(BurstSlots, s, c, "/api/generate", Ping, MaxRequests)
    \/ \E c \in Callers : Health(c, MaxRequests)
    \/ DownSteps
    \/ DownSettles
    \/ \E sig \in Signals : Signal(sig)
    \/ CloseCallback
SpecDown ==
    /\ InitDown /\ [][NextDown]_vars
    /\ \A s \in BurstSlots : WF_vars(ApiLimiter(s)) /\ WF_vars(GenerationLimiter(s))
                              /\ WF_vars(GenerateHandler(s))
    /\ \A s \in BurstSlots :
          WF_vars(ProviderResolve(s, "pong") \/ \E e \in FailingErrors : ProviderReject(s, e))
    /\ WF_vars(CloseCallback)

\* the same, with the start-up listing, exceptions and rejections
InitProc == InitWith({KeyGiven}, {FALSE, TRUE}, {""})
NextProc ==
    \/ NextDown
    \/ \E ok \in BOOLEAN : StartupListing(ok)
    \/ UncaughtException
    \/ UnhandledRejection
SpecProc == InitProc /\ [][NextProc]_vars

\* requests of two callers overlapping, with / and /health between them
MTimeout == "The operation was aborted due to timeout"
InitPair == InitWith({KeyGiven}, {FALSE}, {""})
NextPair ==
    \/ \E s \in BurstSlots, c \in Callers :
          Receive(BurstSlots, s, c, "/api/generate", Ping, MaxRequests)
    \/ \E c \in Callers : Root(c, MaxRequests)
    \/ \E c \in Callers : Health(c, MaxRequests)
    \/ \E s \in BurstSlots : ApiLimiter(s)
    \/ \E s \in BurstSlots : GenerationLimiter(s)
    \/ \E s \in BurstSlots : GenerateHandler(s)
    \/ \E s \in BurstSlots : ProviderResolve(s, "pong")
    \/ \E s \in BurstSlots : ProviderReject(s, Err(0, 0, MTimeout))
SpecPair == InitPair /\ [][NextPair]_vars

\* the generation route with every kind of body, in each environment
JsonBodies == {NoBody, Ping, [parsed |-> TRUE, prompt |-> Str(MaxPromptLen + 1), sys |-> FALSE]}
JsonErrors ==
    {Err(0, 0, M404), Err(0, 0, M404With429), Err(429, 0, M404), Err(0, 404, ""),
     Err(0, 404, M404), Err(403, 0, ""), Err(0, 503, MFetch), Err(0, 0, M429)}
InitJson == InitWith({KeyGiven}, {FALSE}, EnvValues)
NextJson ==
    \/ \E s \in Slots, c \in Callers, body \in JsonBodies :
          Receive(Slots, s, c, "/api/generate", body, MaxRequests)
    \/ \E c \in Callers, pe \in ParserErrors : JsonReject(c, "/api/generate", pe, MaxRequests)
    \/ \E s \in Slots : ApiLimiter(s)
    \/ \E s \in Slots : GenerationLimiter(s)
    \/ \E s \in Slots : GenerateHandler(s)
    \/ \E s \in Slots : ProviderResolve(s, "pong")
    \/ \E s \in Slots, e \in JsonErrors : ProviderReject(s, e)
SpecJson == InitJson /\ [][NextJson]_vars

\* a run of check_env.js, for every key the environment and the file may hold
InitHelper ==
    /\ helper \in {HelperStart(e, f) : e \in HelperKeys, f \in HelperKeys}
    /\ proc = ProcRunning
    /\ nodeEnv = ""
    /\ now = 0
    /\ ticks = 0
    /\ apiKey = KeyUnset
    /\ sdkListModels = FALSE
    /\ apiStore = [k \in Keys |-> NoClient]
    /\ genStore = [k \in Keys |-> NoClient]
    /\ req = [s \in AllSlots |-> Idle]
    /\ received = 0
    /\ last = NoResponse
    /\ genLog = [k \in Keys |-> << >>]
NextHelper == HelperLoad \/ HelperReport \/ HelperExit
SpecHelper == InitHelper /\ [][NextHelper]_vars /\ WF_vars(NextHelper)

(* =============================== claims ================================ *)
Limiters == {"apiLimiter", "generationLimiter"}
\* the step just taken answered a generation request
Answered == last.by # "none" /\ last.route = "/api/generate"
\* ... and the request had been let through by both limiters
Handled == Answered /\ last.by \notin Limiters
TooLong(b) == b.parsed /\ b.prompt.type = "string" /\ b.prompt.len > MaxPromptLen
MissingEmptyOrNotString(b) ==
    \/ ~b.parsed
    \/ b.prompt.type # "string"
    \/ b.prompt.len = 0
ValidPrompt(b) ==
    b.parsed /\ b.prompt.type = "string" /\ b.prompt.len > 0 /\ b.prompt.len <= MaxPromptLen
CredentialPresent == apiKey.set /\ apiKey.len > 0

C2_Original ==
    (Handled /\ MissingEmptyOrNotString(last.body)) =>
        /\ last.status = 400
        /\ last.payload = [NoPayload EXCEPT !.error = InvalidPrompt]
        /\ last.calls = 0

\* The fixed window the limiter keeps, told from the arrival times alone:
\* the window of the j-th arrival opens at the first arrival that came no
\* earlier than one window length after the opening of the window before.
\* WinStarts(log)[j] is the opening time of the window of the j-th arrival.
RECURSIVE WinStarts(_)
WinStarts(log) ==
    IF log = << >> THEN << >>
    ELSE LET n == Len(log)
             before == WinStarts(SubSeq(log, 1, n - 1))
         IN  IF n = 1 \/ log[n].t >= before[n - 1] + GenWindowMs
             THEN Append(before, log[n].t)
             ELSE Append(before, before[n - 1])
\* the place of the j-th arrival among the arrivals of its window, ws being
\* the opening times
PosInWindow(ws, j) == Cardinality({i \in 1 .. j : ws[i] = ws[j]})

\* C3: the (threshold+1)-th generation call of a caller inside one window is
\* answered 429 by the generation limiter, and the first call made once the
\* window has elapsed is let through again.
C3_RejectThenAccept ==
    /\ \A c \in Callers :
          LET ws == WinStarts(genLog[c]) IN
          \A j \in 1 .. Len(genLog[c]) :
              /\ PosInWindow(ws, j) = GenMax + 1 => ~genLog[c][j].pass
              /\ PosInWindow(ws, j) = 1 => genLog[c][j].pass
    /\ last.by = "generationLimiter" =>
          /\ last.status = 429
          /\ ~genLog[last.ip][Len(genLog[last.ip])].pass
C3_Witness ==
    \E c \in Callers :
        LET ws == WinStarts(genLog[c]) IN
        \E j \in 1 .. Len(genLog[c]) : \E k \in 1 .. Len(genLog[c]) :
            /\ PosInWindow(ws, j) = GenMax + 1
            /\ ~genLog[c][j].pass
            /\ k > j
            /\ genLog[c][k].t >= ws[j] + GenWindowMs
            /\ genLog[c][k].pass

\* C4: a request rejected because a window's threshold is exceeded gets 429
\* with that limiter's message, and no provider invocation is made for it;
\* and a request that finds its window over the threshold is so rejected.
C4_LimiterRejection ==
    /\ last.by = "apiLimiter" =>
          /\ last.status = 429
          /\ last.payload = [NoPayload EXCEPT !.text = ApiMessage]
          /\ last.calls = 0
    /\ last.by = "generationLimiter" =>
          /\ last.status = 429
          /\ last.payload = [NoPayload EXCEPT !.text = GenMessage]
          /\ last.calls = 0
    /\ (last.by # "none" /\ last.route \in {"/api/generate", "/api/models"}
          /\ apiStore[last.ip].totalHits > ApiMax) => last.by = "apiLimiter"
    /\ (Answered /\ genStore[last.ip].totalHits > GenMax) => last.by \in Limiters
C4_Witness ==
    /\ last.by = "apiLimiter"
    /\ \E j \in 1 .. Len(genLog[last.ip]) : ~genLog[last.ip][j].pass

\* the requests of the log let through with an arrival time in (t - window, t]
PassedInTrailing(log, t) ==
    Cardinality({i \in 1 .. Len(log) : log[i].pass /\ log[i].t > t - GenWindowMs /\ log[i].t <= t})
\* the requests of the window of the j-th arrival let through
PassedInWindow(log, ws, j) ==
    Cardinality({i \in 1 .. Len(log) : log[i].pass /\ ws[i] = ws[j]})

\* C5 as stated: in any trailing interval of one window length, at most
\* threshold generation requests of a caller are let through.
C5_Original ==
    \A c \in Callers : \A j \in 1 .. Len(genLog[c]) :
        PassedInTrailing(genLog[c], genLog[c][j].t) <= GenMax

\* C5, amended: the generation limiter keeps a fixed window per caller, from
\* the caller's first request after the previous window expired and one
\* window length long; at most threshold requests of one such window are let
\* through (a trailing interval that straddles a reset may hold more).
C5_FixedWindow ==
    \A c \in Callers :
        LET ws == WinStarts(genLog[c]) IN
        \A j \in 1 .. Len(genLog[c]) : PassedInWindow(genLog[c], ws, j) <= GenMax
C5_Witness ==
    \E c \in Callers :
        LET ws == WinStarts(genLog[c]) IN
        \E j \in 1 .. Len(genLog[c]) :
            /\ PassedInTrailing(genLog[c], genLog[c][j].t) > GenMax
            /\ PassedInWindow(genLog[c], ws, j) <= GenMax

\* C6: with requests of one caller overlapping, every request that reaches
\* the generation limiter is counted: the counter equals the arrivals of the
\* current window, exactly the first threshold arrivals of a window are let
\* through and every other one is rejected.
C6_EveryRequestCounted ==
    \A c \in Callers :
        LET log == genLog[c]
            ws == WinStarts(log)
        IN  /\ log # << >> => genStore[c].totalHits = PosInWindow(ws, Len(log))
            /\ \A j \in 1 .. Len(log) : log[j].pass <=> PosInWindow(ws, j) <= GenMax
C6_Witness ==
    /\ last.by = "generationLimiter"
    /\ \E s \in AllSlots : req[s].pc = "provider" /\ req[s].ip = last.ip

\* the catch block's precedence: response.status, else status, else the message
Derived429(e) ==
    \/ e.respStatus = 429
    \/ e.respStatus = 0 /\ e.status = 429
    \/ e.respStatus = 0 /\ e.status = 0 /\ Includes429(MsgOf(e))
QuotaPayload == ErrorPayload(QuotaError, [msg |-> QuotaDetails, suggestion |-> FALSE])

\* C7 as stated: a provider failure with a 429 status on the error or on its
\* response, or a 429 in its message, is answered 429 with the advisory payload.
C7_Original ==
    (Answered /\ last.settled = "rejected"
        /\ (last.err.status = 429 \/ last.err.respStatus = 429 \/ Includes429(MsgOf(last.err))))
    => (last.status = 429 /\ last.payload = QuotaPayload)

\* C7, amended: a provider failure is answered 429 with the advisory payload
\* when the first indication it carries, in the order error.response.status,
\* error.status, "429" in the message, is 429.
C7_QuotaTranslated ==
    (Answered /\ last.settled = "rejected" /\ Derived429(last.err))
    => (last.status = 429 /\ last.payload = QuotaPayload)
C7_Witness ==
    /\ Answered /\ last.settled = "rejected"
    /\ last.err = Err(0, 0, M429)
    /\ last.status = 429

\* C8: a valid prompt, within the rate limits, with the credential
\* configured: the provider is invoked exactly once, and when it succeeds the
\* answer is 200 { output: t } with t the text the provider returned.
C8_SuccessVerbatim ==
    /\ (Handled /\ ValidPrompt(last.body) /\ CredentialPresent) =>
          last.calls = 1 /\ last.settled # "none"
    /\ (Answered /\ last.settled = "resolved") =>
          /\ last.status = 200
          /\ last.calls = 1
          /\ last.payload = [NoPayload EXCEPT !.output = last.got]
C8_Witness ==
    /\ Answered /\ last.settled = "resolved"
    /\ last.body = Ping
    /\ last.got = " two words "
    /\ last.status = 200

\* C9 as stated: with the credential absent, every generation request the
\* rate limiters let through is answered 500, with no provider invocation.
C9_Original ==
    (Handled /\ ~CredentialPresent) => (last.status = 500 /\ last.calls = 0)

\* C9, amended: with the credential absent, every generation request the
\* rate limiters let through whose prompt passes validation is answered 500
\* (AI Generation Failed, with the missing-key message); an invalid prompt is
\* answered 400 first; no generation request invokes the provider.
C9_FailFast ==
    (Answered /\ ~CredentialPresent) =>
        /\ last.calls = 0
        /\ (Handled /\ ValidPrompt(last.body)) =>
              /\ last.status = 500
              /\ last.payload = ErrorPayload(FailedError, [msg |-> MNoKey, suggestion |-> FALSE])
        /\ (Handled /\ last.body.parsed /\ ~ValidPrompt(last.body)) => last.status = 400
C9_Witness ==
    /\ Handled /\ ~CredentialPresent /\ ValidPrompt(last.body)
    /\ last.status = 500

\* C10: the apiKey field of every /health response is 'configured' exactly
\* when the credential is present and 'missing' exactly when it is absent,
\* whatever requests came before.
C10_HealthKey ==
    last.route = "/health" =>
        /\ last.status = 200
        /\ last.payload.apiKey = "configured" <=> CredentialPresent
        /\ last.payload.apiKey = "missing" <=> ~CredentialPresent
C10_Witness ==
    /\ last.route = "/health"
    /\ ~CredentialPresent
    /\ \E c \in Callers : genLog[c] # << >>

\* C11 as stated: every response to POST /api/generate has a status in
\* {200, 400, 429, 500}: 200 only with { output }, 400 only for an invalid
\* prompt, 429 only for a rate-limit rejection or a provider quota signal,
\* and every other failure, whatever status the provider error carries, is
\* answered 500 with a body { error, details }.
C11_Original ==
    Answered =>
        /\ last.status \in {200, 400, 429, 500}
        /\ last.status = 200 => last.payload = [NoPayload EXCEPT !.output = last.got]
        /\ last.status = 400 =>
              /\ last.by = "validation"
              /\ last.body.parsed /\ ~ValidPrompt(last.body)
        /\ last.status = 429 =>
              \/ last.by \in Limiters
              \/ last.by = "catch" /\ last.settled = "rejected" /\ Derived429(last.err)
        /\ (last.by = "catch" /\ ~Derived429(last.err)) =>
              /\ last.status = 500
              /\ last.payload.error = FailedError
              /\ last.payload = ErrorPayload(FailedError, last.payload.details)

\* an error that tells of a resource not found: by a 404 status, or by
\* "not found" or "404" in its message
SignalsNotFound(e) ==
    e.respStatus = 404 \/ e.status = 404 \/ IncludesNotFound(MsgOf(e))
HintPayload(e) == ErrorPayload(FailedError, [msg |-> MsgOf(e), suggestion |-> TRUE])

\* C12 as stated: every provider failure that signals resource-not-found is
\* answered 500 'AI Generation Failed' with details that include the
\* 'SUGGESTION: Model not found ...' hint.
C12_Original ==
    (Answered /\ last.settled = "rejected" /\ SignalsNotFound(last.err)) =>
        (last.status = 500 /\ last.payload = HintPayload(last.err))

\* C12, amended: a provider failure whose message contains "not found" (in
\* any case) or "404", and that is not taken for a quota signal (429 is not
\* the first of error.response.status, error.status, "429" in the message),
\* is answered 500 'AI Generation Failed' with details made of the message
\* and the hint; a 404 status alone brings no hint.
C12_NotFoundHint ==
    (Answered /\ last.settled = "rejected") =>
        /\ (IncludesNotFound(MsgOf(last.err)) /\ ~Derived429(last.err)) =>
              (last.status = 500 /\ last.payload = HintPayload(last.err))
        /\ last.payload.details.suggestion =>
              (IncludesNotFound(MsgOf(last.err)) /\ last.status = 500)
C12_Witness ==
    /\ Answered /\ last.settled = "rejected"
    /\ last.err = Err(0, 404, M404)
    /\ last.status = 500
    /\ last.payload.details.suggestion

\* C13 as stated: no response sent to a caller contains the stack trace of a
\* server-side error; a failed generation request is answered with a body of
\* the fields error and details only, details derived from the error message
\* alone.
C13_Original ==
    Answered =>
        /\ ~last.payload.stack
        /\ last.by = "catch" =>
              /\ last.payload = ErrorPayload(last.payload.error, last.payload.details)
              /\ last.payload.details.msg \in {MsgOf(last.err), QuotaDetails}

\* C14: the relay invokes the provider's generate operation at most once for
\* a generation request, and once that invocation fails the request is
\* terminal: the failure is answered (by the catch block, 429 or 500) and no
\* request whose invocation has failed is kept for another one.
C14_NoRetry ==
    /\ \A s \in AllSlots :
          /\ req[s].calls <= 1
          /\ req[s].pc = "provider" => req[s].calls = 1
          /\ req[s].settled = "none"
    /\ Answered => last.calls <= 1
    /\ (Answered /\ last.settled = "rejected") =>
          /\ last.calls = 1
          /\ last.by = "catch"
          /\ last.status \in {429, 500}
C14_Witness ==
    /\ Answered /\ last.settled = "rejected"
    /\ last.calls = 1
    /\ last.status = 500

\* C15: while the provider call of one request is pending, whatever is the
\* next thing to do for any other request can be done: GET / and GET /health
\* are answered, a generation request of any caller is received, and a
\* request already received takes its next step, up to its answer.
C15_NotBlocked ==
    \A s \in BurstSlots : req[s].pc = "provider" =>
        /\ received < MaxRequests =>
              \A c \in Callers :
                  /\ ENABLED Root(c, MaxRequests)
                  /\ ENABLED Health(c, MaxRequests)
                  /\ (\E q \in BurstSlots : req[q] = Idle) =>
                        ENABLED (\E q \in BurstSlots :
                                    Receive(BurstSlots, q, c, "/api/generate", Ping, MaxRequests))
        /\ \A q \in BurstSlots \ {s} :
              /\ req[q].pc = "apiLimiter" => ENABLED ApiLimiter(q)
              /\ req[q].pc = "generationLimiter" => ENABLED GenerationLimiter(q)
              /\ req[q].pc = "handler" => ENABLED GenerateHandler(q)
              /\ req[q].pc = "provider" => ENABLED ProviderResolve(q, "pong")
C15_Witness ==
    \E s \in BurstSlots :
        /\ req[s].pc = "provider"
        /\ Answered /\ last.status = 200 /\ last.settled = "resolved"
        /\ last.ip # req[s].ip

AllCallers == Callers \cup V6Callers
\* the step handles a request of caller a
StepOf(a) == \E s \in AllSlots : req'[s] # req[s] /\ (req[s].ip = a \/ req'[s].ip = a)
\* the two counters kept for caller b are left as they were
CountersKept(b) ==
    /\ apiStore'[KeyGenerator(b)] = apiStore[KeyGenerator(b)]
    /\ genStore'[KeyGenerator(b)] = genStore[KeyGenerator(b)]
\* two addresses the limiters do not tell apart
SameNetwork(a, b) == a = b \/ (a \in V6Callers /\ b \in V6Callers)
\* what a limiter decides for a request depends on the counter of its caller
OwnCounterDecides ==
    /\ last.by = "apiLimiter" => apiStore[KeyGenerator(last.ip)].totalHits > ApiMax
    /\ last.by = "generationLimiter" => genStore[KeyGenerator(last.ip)].totalHits > GenMax
    /\ Handled =>
          /\ apiStore[KeyGenerator(last.ip)].totalHits \in 1 .. ApiMax
          /\ genStore[KeyGenerator(last.ip)].totalHits \in 1 .. GenMax

Counted(c) == IF c.resetTime <= now THEN 1 ELSE c.totalHits + 1
\* the step is one of the request in slot s
StepIn(s) == req[s].pc # "idle" /\ req'[s] # req[s]

\* C17: every step of a GET /api/models request leaves the generation
\* counters as they are, and its pass through the general limiter counts one
\* on the caller's general counter; a POST /api/generate request counts one
\* on the general counter and, when the general limiter lets it through, goes
\* on to the generation limiter, where it counts one on the generation
\* counter (and nothing on the general one).
C17_WhatEachWindowCounts ==
    [][\A s \in AllSlots : StepIn(s) =>
          LET r == req[s]
              k == KeyGenerator(r.ip)
          IN  /\ r.route = "/api/models" => genStore' = genStore
              /\ r.pc = "apiLimiter" =>
                    /\ apiStore'[k].totalHits = Counted(apiStore[k])
                    /\ genStore' = genStore
                    /\ (r.route = "/api/generate" /\ apiStore'[k].totalHits <= ApiMax) =>
                          req'[s].pc = "generationLimiter"
                    /\ (r.route = "/api/models" /\ apiStore'[k].totalHits <= ApiMax) =>
                          req'[s].pc = "handler"
              /\ r.pc = "generationLimiter" =>
                    /\ r.route = "/api/generate"
                    /\ genStore'[k].totalHits = Counted(genStore[k])
                    /\ apiStore' = apiStore
              /\ r.pc \notin Limiters => (apiStore' = apiStore /\ genStore' = genStore)]_vars
C17_Witness ==
    /\ last.route = "/api/models" /\ last.by = "handler"
    /\ apiStore[last.ip].totalHits = 3
    /\ genStore[last.ip].totalHits = 1

Elapsed(c) == c.totalHits > 0 /\ c.resetTime <= now

\* C19: the two windows reset independently.  A caller's generation counter
\* changes only when a request of the caller passes the generation limiter,
\* which starts it anew when the generation window has elapsed and leaves
\* the general counter as it is; the general counter changes only in the
\* general limiter, which starts it anew when the general window has elapsed
\* and leaves the generation counter as it is; the clock alone changes
\* neither.  A request that finds the general window exhausted and still
\* running is answered 429 by the general limiter, whether or not the
\* generation window has elapsed.
C19_IndependentReset ==
    [][\A s \in AllSlots :
          LET r == req[s]
              k == KeyGenerator(r.ip)
          IN  /\ (r.pc = "generationLimiter" /\ StepIn(s)) =>
                    /\ apiStore' = apiStore
                    /\ genStore'[k].totalHits =
                          IF Elapsed(genStore[k]) THEN 1 ELSE genStore[k].totalHits + 1
              /\ (r.pc = "apiLimiter" /\ StepIn(s)) =>
                    /\ genStore' = genStore
                    /\ apiStore'[k].totalHits =
                          IF Elapsed(apiStore[k]) THEN 1 ELSE apiStore[k].totalHits + 1
                    /\ (apiStore[k].totalHits >= ApiMax /\ ~Elapsed(apiStore[k])) =>
                          (last'.by = "apiLimiter" /\ last'.status = 429)
              /\ (\A q \in AllSlots : ~(StepIn(q) /\ req[q].pc \in Limiters)) =>
                    (apiStore' = apiStore /\ genStore' = genStore)]_vars
C19_Witness ==
    /\ last.by = "apiLimiter" /\ last.route = "/api/generate" /\ last.status = 429
    /\ Elapsed(genStore[last.ip])
    /\ ~Elapsed(apiStore[last.ip])

\* the places of a list whose model advertises generateContent
Advertising(list) == {i \in 1 .. Len(list) : list[i].gen}
\* the j-th of them, in listing order
NthAdvertising(list, j) ==
    CHOOSE i \in Advertising(list) : Cardinality({x \in Advertising(list) : x <= i}) = j

\* C20: when the provider client supports model listing and the call
\* succeeds, GET /api/models answers 200 { models: L }, L holding, in listing
\* order and without a leading 'models/', the name of every listed model that
\* advertises generateContent and of no other.
C20_SupportedModels ==
    (last.route = "/api/models" /\ last.settled = "resolved") =>
        LET list == ArrayOf(last.listed)
            L == last.payload.models
        IN  /\ sdkListModels
            /\ last.status = 200
            /\ last.payload = [NoPayload EXCEPT !.models = L]
            /\ Len(L) = Cardinality(Advertising(list))
            /\ \A j \in 1 .. Len(L) :
                  /\ ~L[j].prefixed
                  /\ L[j].base = list[NthAdvertising(list, j)].name.base
C20_Witness ==
    /\ last.route = "/api/models" /\ last.settled = "resolved"
    /\ last.listed.array
    /\ Len(last.listed.items) = 3
    /\ Len(last.payload.models) = 2
    /\ last.payload.models[2].base = "gemini-1.5-pro"

\* the step just taken answered a models request that the limiter let through
ModelsAnswered == last.route = "/api/models" /\ last.by \notin {"none", "apiLimiter"}

\* C21 as stated: when the provider client has no listModels operation the
\* answer of GET /api/models is 501 and no provider call is made, and the
\* answer is 500 only when a listing call was made and failed or the
\* credential is missing.
C21_Original ==
    ModelsAnswered =>
        /\ ~sdkListModels => (last.status = 501 /\ last.calls = 0)
        /\ last.status = 500 => (~CredentialPresent \/ (last.calls = 1 /\ last.by = "catch"))

\* C21, amended: the credential is looked at first.  With the credential
\* missing the answer is 500 (missing API key) whether or not the client can
\* list models; with the credential present and no listModels operation the
\* answer is 501 with the explanatory message and no provider call is made;
\* the answer is 500 'Model listing failed' only when a listing call was made
\* and failed; 501 is never the answer to a failed call or a missing
\* credential.
C21_UnsupportedDistinct ==
    ModelsAnswered =>
        /\ ~CredentialPresent =>
              /\ last.status = 500 /\ last.calls = 0
              /\ last.payload = [NoPayload EXCEPT !.error = ModelsNoKey]
        /\ (CredentialPresent /\ ~sdkListModels) =>
              /\ last.status = 501 /\ last.calls = 0
              /\ last.payload = [NoPayload EXCEPT !.error = ModelsUnsupported]
        /\ last.status = 500 =>
              \/ ~CredentialPresent
              \/ /\ last.calls = 1 /\ last.by = "catch" /\ sdkListModels
                 /\ last.payload.error = ModelsFailed
        /\ last.status = 501 => (~sdkListModels /\ CredentialPresent /\ last.calls = 0)
        /\ last.status \in {200, 500, 501}
C21_Witness ==
    /\ ModelsAnswered
    /\ ~sdkListModels /\ CredentialPresent
    /\ last.status = 501

\* C22: handling GET / or GET /health leaves every rate-limit counter and
\* every request being handled as it was and makes no provider call, and
\* both are answered 200 by their route, however many requests the caller
\* has made before.
C22_ReadOnly ==
    /\ [](last.route \in {"/", "/health"} =>
            /\ last.status = 200
            /\ last.by = "handler"
            /\ last.calls = 0)
    /\ [][last'.route \in {"/", "/health"} =>
              /\ apiStore' = apiStore
              /\ genStore' = genStore
              /\ genLog' = genLog
              /\ req' = req]_vars
C22_Witness ==
    /\ last.route = "/health" /\ last.status = 200
    /\ apiStore[last.ip].totalHits > ApiMax
    /\ genStore[last.ip].totalHits > GenMax

\* the items of the helper's output
Printed == UNION {{helper.out[i][j] : j \in 1 .. Len(helper.out[i])} : i \in 1 .. Len(helper.out)}

\* C23: every run of the environment check helper ends, with exit code 0,
\* whether GEMINI_API_KEY is present or absent, and what it has printed by
\* then holds the key's length when the key is present and never its value.
C23_HelperExitsZero ==
    /\ <>(helper.pc = "exited")
    /\ [](helper.pc = "exited" =>
            /\ helper.exit = 0
            /\ \A item \in Printed : item.kind # "value"
            /\ KeyTruthy(helper.key) <=> (\E item \in Printed : item.kind = "length")
            /\ helper.key = IF helper.envKey.set THEN helper.envKey ELSE helper.fileKey)
C23_Witness ==
    /\ helper.pc = "exited" /\ helper.exit = 0
    /\ ~helper.envKey.set /\ helper.fileKey.len = 39
    /\ helper.out = << OkLine >>

\* C24: the length boundary of the validation.  A prompt of exactly 10,000
\* characters passes the validation (it is not answered 400) and, the
\* credential being configured, is forwarded to the provider, once; a prompt
\* of 10,001 characters is answered 400 'Prompt too long (max 10,000
\* characters)' and not forwarded.
C24_LengthBoundary ==
    (Handled /\ last.body.parsed /\ last.body.prompt.type = "string") =>
        /\ last.body.prompt.len = MaxPromptLen =>
              /\ last.by # "validation" /\ last.status # 400
              /\ CredentialPresent => (last.calls = 1 /\ last.settled # "none")
        /\ last.body.prompt.len = MaxPromptLen + 1 =>
              /\ last.by = "validation" /\ last.status = 400
              /\ last.payload = [NoPayload EXCEPT !.error = PromptTooLong]
              /\ last.calls = 0
C24_Witness ==
    /\ Handled /\ last.body.prompt = Str(MaxPromptLen)
    /\ last.calls = 1 /\ last.status = 200

\* C25: the answer of the catch block follows the precedence
\* error.response.status, else error.status, else 429 for a message with
\* '429', else 500: the caller receives 429 (with the advisory payload)
\* exactly when the value so derived is 429, and 500 'AI Generation Failed'
\* in every other case.
C25_StatusPrecedence ==
    (Answered /\ last.by = "catch") =>
        /\ last.status \in {429, 500}
        /\ last.status = 429 <=> Derived429(last.err)
        /\ last.status = 429 => last.payload = QuotaPayload
        /\ last.status = 500 =>
              /\ last.payload.error = FailedError
              /\ last.payload.details.msg = MsgOf(last.err)
C25_Witness ==
    /\ Answered /\ last.by = "catch"
    /\ last.err = Err(0, 503, M429)
    /\ last.status = 500

\* C26: every generation request that reaches the generation limiter is
\* counted, whatever answer it gets later: with requests answered 400
\* (invalid prompt), 500 (no body, provider failure) or 429 by the catch
\* block only, the counter equals the requests made, the first 10 are let
\* through and the next one is rejected by the generation limiter.
C26_FailuresCounted ==
    last.by # "none" =>
        /\ genStore[last.ip].totalHits = received
        /\ received <= GenMax =>
              /\ last.by \in {"validation", "catch"}
              /\ last.status \in {400, 429, 500}
        /\ received > GenMax =>
              /\ last.by = "generationLimiter"
              /\ last.status = 429
              /\ last.payload = [NoPayload EXCEPT !.text = GenMessage]
C26_Witness ==
    /\ received = GenMax + 1
    /\ last.by = "generationLimiter"
    /\ last.body.prompt = Str(0)

\* C27: on POST /api/generate the general limiter runs before the generation
\* limiter.  The step that rejects a generation request by the general
\* window is the request's first and leaves the generation counter and the
\* generation limiter's log as they are; the step that rejects one by the
\* generation window leaves the general counter as it is, and that counter
\* already holds the request: it counts every request made so far.
C27_GeneralFirst ==
    /\ [][\A s \in AllSlots : (StepIn(s) /\ req[s].route = "/api/generate") =>
              /\ last'.by = "apiLimiter" =>
                    /\ req[s].pc = "apiLimiter"
                    /\ genStore' = genStore /\ genLog' = genLog
              /\ last'.by = "generationLimiter" =>
                    /\ req[s].pc = "generationLimiter"
                    /\ apiStore' = apiStore
                    /\ apiStore[KeyGenerator(req[s].ip)].totalHits = received]_vars
    /\ [](last.by = "generationLimiter" => apiStore[last.ip].totalHits = received)
    /\ []((last.by = "apiLimiter" /\ last.route = "/api/generate") =>
              Len(genLog[last.ip]) < received)
C27_Witness ==
    /\ last.by = "apiLimiter" /\ last.route = "/api/generate"
    /\ genStore[last.ip].totalHits = GenMax + 1
    /\ received = ApiMax + 1

\* C28: every POST /api/generate request receives exactly one response.  A
\* request being handled leaves only by being answered, the answer is the
\* first and only response written for it on every path (body parser,
\* limiter, validation, missing credential, missing body, provider success,
\* provider failure), and, every provider call settling in the end, every
\* request received is answered in the end.
C28_ExactlyOneResponse ==
    /\ [](Answered => last.sent = 1)
    /\ [][\A s \in AllSlots : (req[s].pc # "idle" /\ req'[s] # req[s] /\ req'[s].pc = "idle") =>
              /\ last'.by # "none" /\ last'.sent = 1
              /\ last'.ip = req[s].ip /\ last'.body = req[s].body]_vars
    /\ \A s \in AllSlots : (req[s].pc # "idle") ~> (req[s].pc = "idle" /\ last.by # "none")
C28_Witness ==
    /\ Answered /\ last.by = "catch" /\ last.sent = 1
    /\ ~last.body.parsed
    /\ genStore[last.ip].totalHits = GenMax

RejectionLogs == {"Unhandled Promise Rejection", "Could not list models at startup"}
C30_ProcessFailures ==
    /\ [][(proc' # proc /\ proc'.logged = "Uncaught Exception - Server will restart") =>
             proc'.state = "exited" /\ proc'.exit = 1]_vars
    /\ [][(proc' # proc /\ proc'.logged \in RejectionLogs) =>
             /\ proc'.state = proc.state /\ proc'.exit = proc.exit
             /\ req' = req /\ apiStore' = apiStore /\ genStore' = genStore
             /\ received' = received]_vars
    /\ [](proc.state = "exited" =>
             \/ proc.exit = 1 /\ proc.logged = "Uncaught Exception - Server will restart"
             \/ proc.exit = 0 /\ proc.logged = "Server closed successfully")
    /\ [](proc.logged \in RejectionLogs => proc.state # "exited")
C30_Witness ==
    /\ Handled /\ last.status = 200 /\ last.payload.output = "pong"
    /\ proc.logged = "Unhandled Promise Rejection"
    /\ proc.listing = "done" /\ sdkListModels
    /\ Listening
====
